---- MODULE Spec2Model ----
(***************************************************************************)
(* The task lifecycle engine of orchestra (src/orchestrator.py): the queue *)
(* scanner main(), the per-document engine process_markdown_file() with    *)
(* the helpers it calls, over a file system of three directories.          *)
(*                                                                         *)
(* Text is a sequence of tokens.  A token is a string: one character, or a *)
(* marker that stands for a fixed piece of text ("\n", "## Response", a    *)
(* JSON document).  File names are sequences of name parts joined by "_".  *)
(***************************************************************************)
EXTENDS Integers, Sequences, FiniteSets, TLC

\* ------------------------------------------------------------------ bounds
\* The clock reads 1..MaxTime (whole seconds, as time.strftime formats them):
\* it ticks MaxTime - 1 times in a run.
MaxTime == 1
\* Engine invocations (calls of process_markdown_file) explored in one run.
MaxInvocations == 1
\* Injected I/O faults (a read, write or rename that fails) in one run.
MaxFaults == 1
\* Engine invocations explored in a run of SpecPasses.
MaxPassInvocations == 2
MaxBodyLen == 6
MaxReplyLen == 3
MaxCodecBodyLen == 2

\* The passes (processes running main()); Spec runs pass 1 alone.
Procs == {1, 2}
SeqProcs == {1}

\* ------------------------------------------------------------------- text
NL == "\n"
Whitespace == {" ", NL}
AC == "## Acceptance Criteria"
Headings == {AC, "## Next", "## Response", "## Error Log"}

RECURSIVE LStrip(_)
LStrip(s) == IF s # <<>> /\ Head(s) \in Whitespace THEN LStrip(Tail(s)) ELSE s

RECURSIVE RStrip(_)
RStrip(s) ==
  IF s # <<>> /\ s[Len(s)] \in Whitespace THEN RStrip(SubSeq(s, 1, Len(s) - 1)) ELSE s

\* str.strip()
Strip(s) == RStrip(LStrip(s))

\* str.lower(), on the letters the replies and criteria are drawn from.
LowerChar(c) ==
  CASE c = "O" -> "o"
    [] c = "K" -> "k"
    [] c = "True" -> "true"
    [] c = "False" -> "false"
    [] OTHER -> c

Lower(s) == [i \in 1..Len(s) |-> LowerChar(s[i])]

\* needle in hay
Contains(hay, needle) ==
  \E i \in 0..(Len(hay) - Len(needle)) : SubSeq(hay, i + 1, i + Len(needle)) = needle

\* str.split('\n'): the lines of s (at least one, possibly empty).
RECURSIVE SplitLines(_, _, _)
SplitLines(s, cur, acc) ==
  IF s = <<>> THEN Append(acc, cur)
  ELSE IF Head(s) = NL THEN SplitLines(Tail(s), <<>>, Append(acc, cur))
  ELSE SplitLines(Tail(s), Append(cur, Head(s)), acc)

\* '\n'.join(lines)
RECURSIVE JoinLines(_)
JoinLines(ls) ==
  IF ls = <<>> THEN <<>>
  ELSE IF Len(ls) = 1 THEN ls[1]
  ELSE ls[1] \o <<NL>> \o JoinLines(Tail(ls))

\* The loop without line 330: the heading that ends the section is not kept.
RECURSIVE StripLoop_DropsNextHeading(_, _, _)
StripLoop_DropsNextHeading(ls, skip, acc) ==
  IF ls = <<>> THEN acc
  ELSE LET line == Head(ls) IN
    IF Strip(line) = <<AC>> THEN StripLoop_DropsNextHeading(Tail(ls), TRUE, acc)
    ELSE IF skip
      THEN IF line # <<>> /\ Head(line) \in Headings /\ Strip(line) # <<AC>>
             THEN StripLoop_DropsNextHeading(Tail(ls), FALSE, acc)
             ELSE StripLoop_DropsNextHeading(Tail(ls), TRUE, acc)
      ELSE StripLoop_DropsNextHeading(Tail(ls), FALSE, Append(acc, line))

\* The loop of strip_acceptance_criteria over the lines, carrying skip_section.
RECURSIVE StripLoop(_, _, _)
StripLoop(ls, skip, acc) ==
  IF ls = <<>> THEN acc
  ELSE LET line == Head(ls) IN
    IF Strip(line) = <<AC>> THEN StripLoop(Tail(ls), TRUE, acc)
    ELSE IF skip
      THEN IF line # <<>> /\ Head(line) \in Headings /\ Strip(line) # <<AC>>
             THEN StripLoop(Tail(ls), FALSE, Append(acc, line))
             ELSE StripLoop(Tail(ls), TRUE, acc)
      ELSE StripLoop(Tail(ls), FALSE, Append(acc, line))

strip_acceptance_criteria(content) ==
  JoinLines(StripLoop(SplitLines(content, <<>>, <<>>), FALSE, <<>>))

\* -------------------------------------------------- values that may be None
None == [none |-> TRUE, text |-> <<>>]
Str(t) == [none |-> FALSE, text |-> t]
\* Python truthiness of None or a str.
Truthy(v) == ~v.none /\ v.text # <<>>

\* ------------------------------------------------------ completion criteria
\* A criteria value: absent (None), a str s, a bool b, an int n, or a dict with
\* an optional 'contains' (c, s) and an optional 'min_length' (m, n).
CritAbsent == [t |-> "absent", s |-> <<>>, b |-> FALSE, n |-> 0, c |-> FALSE, m |-> FALSE]
CritStr(s) == [t |-> "str", s |-> s, b |-> FALSE, n |-> 0, c |-> FALSE, m |-> FALSE]
CritBool(b) == [t |-> "bool", s |-> <<>>, b |-> b, n |-> 0, c |-> FALSE, m |-> FALSE]
CritInt(n) == [t |-> "int", s |-> <<>>, b |-> FALSE, n |-> n, c |-> FALSE, m |-> FALSE]
\* A dict: c says 'contains' is a key (its value s), m says 'min_length' is.
CritDict(c, s, m, n) == [t |-> "dict", s |-> s, b |-> FALSE, n |-> n, c |-> c, m |-> m]

\* `not criteria`
CritFalsy(cr) ==
  \/ cr.t = "absent"
  \/ cr.t = "str" /\ cr.s = <<>>
  \/ cr.t = "bool" /\ ~cr.b
  \/ cr.t = "int" /\ cr.n = 0
  \/ cr.t = "dict" /\ ~cr.c /\ ~cr.m

\* The function without the two .lower() calls of line 157.
check_completion_criteria_DictCaseSensitive(response_text, criteria) ==
  IF CritFalsy(criteria) THEN TRUE
  ELSE IF criteria.t = "str" THEN Contains(Lower(response_text), Lower(criteria.s))
  ELSE IF criteria.t = "dict"
    THEN /\ criteria.c => Contains(response_text, criteria.s)
         /\ criteria.m => Len(response_text) >= criteria.n
  ELSE FALSE

check_completion_criteria(response_text, criteria) ==
  IF CritFalsy(criteria) THEN TRUE
  ELSE IF criteria.t = "str" THEN Contains(Lower(response_text), Lower(criteria.s))
  ELSE IF criteria.t = "dict"
    THEN /\ criteria.c => Contains(Lower(response_text), Lower(criteria.s))
         /\ criteria.m => Len(response_text) >= criteria.n
  ELSE FALSE

\* ------------------------------------------------------- inference client
\* What the HTTP request can come to.  k names the outcome; text is the reply
\* when the body is {"choices":[{"message":{"content": text}}]}.
HttpFail(k) == [k |-> k, text |-> <<>>]
HttpReply(t) == [k |-> "content", text |-> t]

NoLog == [stage |-> "none", error_type |-> "none"]
ErrLog(stage, ty) == [stage |-> stage, error_type |-> ty]

Returned(content, log) == [raised |-> FALSE, exc |-> "none", content |-> content, log |-> log]
Raised(exc) == [raised |-> TRUE, exc |-> exc, content |-> None, log |-> NoLog]

\* requests.post, raise_for_status, response.json() and the subscripting
\* data['choices'][0]['message']['content'], with the two except clauses.
\* jsonErrCaught: response.json() raises requests' JSONDecodeError, a
\* RequestException (requests >= 2.27), or a plain ValueError (older).
submit_to_openwebui(http, jsonErrCaught) ==
  CASE http.k = "timeout" -> Returned(None, ErrLog("API Error", "Timeout"))
    [] http.k = "connection_error" -> Returned(None, ErrLog("API Error", "ConnectionError"))
    [] http.k = "http_status" -> Returned(None, ErrLog("API Error", "HTTPError"))
    [] http.k = "body_not_json" ->
         IF jsonErrCaught THEN Returned(None, ErrLog("API Error", "JSONDecodeError"))
         ELSE Raised("ValueError")
    [] http.k = "json_array" -> Raised("TypeError")
    [] http.k = "choices_missing" -> Returned(None, ErrLog("Response Parsing Error", "KeyError"))
    [] http.k = "choices_null" -> Raised("TypeError")
    [] http.k = "choices_empty" -> Returned(None, ErrLog("Response Parsing Error", "IndexError"))
    [] http.k = "content_missing" -> Returned(None, ErrLog("Response Parsing Error", "KeyError"))
    [] http.k = "content_null" -> Returned(None, NoLog)
    [] OTHER -> Returned(Str(http.text), NoLog)

\* format_error_log: the report for a log entry; log_data None has no items().
format_error_log(log) ==
  IF log.stage = "none" THEN [raised |-> TRUE, exc |-> "AttributeError", text |-> <<>>]
  ELSE [raised |-> FALSE, exc |-> "none",
        text |-> <<"## Error Log", NL, log.stage, NL, log.error_type, NL>>]

\* ------------------------------------------------ evaluator-response parser
\* JSON documents a reply may hold, each one token:
\*   J:no2     {"acceptance_status":"no","next_steps":["a","b"]}
\*   J:NO1     {"acceptance_status":"NO","NEXT STEPS":["a"]}
\*   J:yes     {"acceptance_status":"yes"}
\*   J:nostr   {"acceptance_status":"no","next_steps":"a"}
\*   J:accnum  {"acceptance_status":1}
\*   J:empty   {}
\*   J:list    ["a"]
JsonObjects == {"J:no2", "J:NO1", "J:yes", "J:nostr", "J:accnum", "J:empty"}
JsonTokens == JsonObjects \cup {"J:list"}
\* The opening of a fenced block tagged json, and a bare fence.
Fence == "<fence json>"
FenceEnd == "<fence>"

\* json.loads(s): the token, or "" for JSONDecodeError.
JsonLoads(s) ==
  LET u == Strip(s) IN IF Len(u) = 1 /\ u[1] \in JsonTokens THEN u[1] ELSE ""

\* s.find(tok, from): the first index >= from holding a token of toks, or 0.
FindFrom(s, toks, from) ==
  LET hits == {i \in from..Len(s) : s[i] \in toks} IN
  IF hits = {} THEN 0 ELSE CHOOSE i \in hits : \A j \in hits : i <= j

\* s.rfind(tok): the last index holding a token of toks, or 0.
RFind(s, toks) ==
  LET hits == {i \in 1..Len(s) : s[i] \in toks} IN
  IF hits = {} THEN 0 ELSE CHOOSE i \in hits : \A j \in hits : j <= i

\* The three attempts of parse_evaluator_response, in order; "" is (None, error).
parse_evaluator_response(s) ==
  LET direct == JsonLoads(s)
      js == FindFrom(s, {Fence}, 1)
      je == IF js = 0 THEN 0 ELSE FindFrom(s, {Fence, FenceEnd}, js + 1)
      fenced == IF js # 0 /\ je # 0 THEN JsonLoads(SubSeq(s, js + 1, je - 1)) ELSE ""
      bs == FindFrom(s, JsonObjects, 1)
      be == RFind(s, JsonObjects)
      braces == IF bs # 0 /\ be # 0 THEN JsonLoads(SubSeq(s, bs, be)) ELSE ""
  IN IF direct # "" THEN direct
     ELSE IF fenced # "" THEN fenced
     ELSE braces

\* if json_data:
JsonTruthy(j) == j \notin {"", "J:empty"}

\* json_data.get('acceptance_status', '').lower(): [raised, value].
AcceptanceStatus(j) ==
  CASE j = "J:list" -> [raised |-> TRUE, v |-> ""]
    [] j = "J:accnum" -> [raised |-> TRUE, v |-> ""]
    [] j \in {"J:no2", "J:NO1", "J:nostr"} -> [raised |-> FALSE, v |-> "no"]
    [] j = "J:yes" -> [raised |-> FALSE, v |-> "yes"]
    [] OTHER -> [raised |-> FALSE, v |-> ""]

\* The steps create_next_steps_subtasks is called with: json_data's 'NEXT STEPS'
\* or 'next_steps' when it is a non-empty list, else none.
NextSteps(j) ==
  CASE j = "J:no2" -> << <<"a">>, <<"b">> >>
    [] j = "J:NO1" -> << <<"a">> >>
    [] OTHER -> <<>>

\* ------------------------------------------------------------- file names
\* A name (without ".md") is its parts, joined by "_" in the code.
Base(i) == [k |-> "base", v |-> i]
\* short_hash of generate_task_id(created_at): the hash of the second t.
HashPart(t) == [k |-> "hash", v |-> t]
\* time.strftime("%Y%m%d_%H%M%S") is two parts: the date, and six digits.
DatePart == [k |-> "date", v |-> 0]
TimePart(t) == [k |-> "hms", v |-> t]
StepPart(i) == [k |-> "step", v |-> i]

\* re.sub(r'_[a-f0-9]{6}$', '', name): a last part of six hex digits goes.
CleanName(name) ==
  IF Len(name) > 1 /\ name[Len(name)].k \in {"hash", "hms"}
    THEN SubSeq(name, 1, Len(name) - 1)
    ELSE name

generate_task_id(t) == [full_hash |-> t, short_hash |-> HashPart(t)]

Pend(name) == [dir |-> "pending", name |-> name]
InDir(d, name) == [dir |-> d, name |-> name]

\* ------------------------------------------------------------------ codec
DefaultModel == "deepseek-r1:latest"
DefaultWorkspace == "default"

\* A metadata dict: every key the engine uses, "absent"/0/<<>> when not there.
EmptyMeta ==
  [status |-> "absent", failure_reason |-> "absent", last_updated |-> 0,
   created_at |-> 0, task_id |-> 0, criteria |-> CritAbsent, model |-> "absent",
   workspace |-> "absent", original_task |-> <<>>, task_type |-> "absent",
   step_number |-> 0]

\* A file: fm says it starts with a frontmatter block; text is what follows it.
EmptyFile == [fm |-> FALSE, meta |-> EmptyMeta, text |-> <<>>]

ResponseSection(response) ==
  <<NL, NL, "---", NL, NL, "## Response", NL, NL>> \o response \o <<NL>>

\* write_frontmatter: the file written for (metadata, content, response).
write_frontmatter(metadata, content, response) ==
  [fm |-> TRUE, meta |-> metadata,
   text |-> <<NL, NL>> \o content
            \o (IF Truthy(response) THEN ResponseSection(response.text) ELSE <<>>)]

\* parse_frontmatter: (metadata, content) of a file.
parse_frontmatter(file) ==
  IF file.fm THEN [meta |-> file.meta, content |-> Strip(file.text)]
  ELSE [meta |-> EmptyMeta, content |-> file.text]

\* ------------------------------------------------------ the codec, as text
\* The same two functions on the text of the file.  A text is a sequence of
\* pieces: a letter or word, a digit, '"', "'", ':', ' ', newline, or '---'.
\* A metadata dict is the sequence of its items (key, value) in insertion
\* order; a value is a str, a bool, an int or None.
Q == "\""
VStr(t) == [t |-> "str", s |-> t, b |-> FALSE, n |-> 0]
VBool(b) == [t |-> "bool", s |-> <<>>, b |-> b, n |-> 0]
VInt(n) == [t |-> "int", s |-> <<>>, b |-> FALSE, n |-> n]
VNone == [t |-> "none", s |-> <<>>, b |-> FALSE, n |-> 0]
Item(key, val) == [key |-> key, val |-> val]

Digits == {"0", "7"}
DigitOf(c) == IF c = "7" THEN 7 ELSE 0
\* int(value) of a str of digits
RECURSIVE IntOf(_)
IntOf(t) == IF t = <<>> THEN 0 ELSE 10 * IntOf(SubSeq(t, 1, Len(t) - 1)) + DigitOf(t[Len(t)])
\* str(n) of an int n >= 0 whose digits are 0 and 7
RECURSIVE StrInt(_)
StrInt(n) ==
  LET d == IF n % 10 = 7 THEN "7" ELSE "0"
  IN IF n < 10 THEN <<d>> ELSE Append(StrInt(n \div 10), d)

\* f'{key}: "{value}"' for a str, f'{key}: {value}' otherwise
FormatValue(v) ==
  CASE v.t = "str" -> <<Q>> \o v.s \o <<Q>>
    [] v.t = "bool" -> <<IF v.b THEN "True" ELSE "False">>
    [] v.t = "int" -> StrInt(v.n)
    [] OTHER -> <<"None">>
FrontmatterLine(item) == item.key \o <<":", " ">> \o FormatValue(item.val)

\* full_content of write_frontmatter
write_frontmatter_text(metadata, content, response) ==
  <<"---", NL>>
  \o JoinLines([i \in 1..Len(metadata) |-> FrontmatterLine(metadata[i])])
  \o <<NL, "---", NL, NL>> \o content
  \o (IF Truthy(response) THEN ResponseSection(response.text) ELSE <<>>)

\* The positions of piece c in t, and the first one after position i (0: none).
Positions(t, c) == {i \in 1..Len(t) : t[i] = c}
FirstAfter(t, c, i) ==
  LET later == {j \in Positions(t, c) : j > i}
  IN IF later = {} THEN 0 ELSE CHOOSE j \in later : \A k \in later : j <= k

\* The value of one frontmatter line: quotes removed, then coerced.
ParseValue(value) ==
  LET unq == IF value # <<>> /\ Head(value) = Q /\ value[Len(value)] = Q
               THEN SubSeq(value, 2, Len(value) - 1)
             ELSE IF value # <<>> /\ Head(value) = "'" /\ value[Len(value)] = "'"
               THEN SubSeq(value, 2, Len(value) - 1)
             ELSE value
  IN IF Lower(unq) = <<"true">> THEN VBool(TRUE)
     ELSE IF Lower(unq) = <<"false">> THEN VBool(FALSE)
     ELSE IF unq # <<>> /\ \A i \in 1..Len(unq) : unq[i] \in Digits THEN VInt(IntOf(unq))
     ELSE VStr(unq)

\* metadata[key] = value: the value of an existing key is replaced in place.
SetItem(metadata, key, val) ==
  IF \E i \in 1..Len(metadata) : metadata[i].key = key
    THEN [i \in 1..Len(metadata) |->
            IF metadata[i].key = key THEN Item(key, val) ELSE metadata[i]]
    ELSE Append(metadata, Item(key, val))

\* The loop over the frontmatter lines.
RECURSIVE ParseLines(_, _)
ParseLines(ls, metadata) ==
  IF ls = <<>> THEN metadata
  ELSE LET line == Strip(Head(ls))
           c == FirstAfter(line, ":", 0)
       IN IF c = 0 THEN ParseLines(Tail(ls), metadata)
          ELSE ParseLines(Tail(ls),
                 SetItem(metadata,
                         Lower(Strip(SubSeq(line, 1, c - 1))),
                         ParseValue(Strip(SubSeq(line, c + 1, Len(line))))))

\* parse_frontmatter on the text read from the file
parse_frontmatter_text(content) ==
  LET second == FirstAfter(content, "---", 1)
  IN IF content = <<>> \/ Head(content) # "---" \/ second = 0
       THEN [meta |-> <<>>, content |-> content]
       ELSE [meta |-> ParseLines(SplitLines(Strip(SubSeq(content, 2, second - 1)),
                                            <<>>, <<>>), <<>>),
             content |-> Strip(SubSeq(content, second + 1, Len(content)))]

\* The file system after open(path, 'w') and write: done, or failed at open
\* (nothing changed) or at write (the file is left truncated).
WriteOutcomes == {"ok", "open_fails", "write_fails"}
Put(f, path, file) == [q \in DOMAIN f \cup {path} |-> IF q = path THEN file ELSE f[q]]
WriteFile(f, path, file, w) ==
  CASE w = "ok" -> Put(f, path, file)
    [] w = "write_fails" -> Put(f, path, EmptyFile)
    [] OTHER -> f

\* os.rename(src, dst): dst is replaced when it exists.
Rename(f, src, dst) ==
  [q \in (DOMAIN f \ {src}) \cup {dst} |-> IF q = dst THEN f[src] ELSE f[q]]

\* The status a reader of the file at path finds ("missing": no such file).
StatusAt(f, path) ==
  IF path \in DOMAIN f THEN parse_frontmatter(f[path]).meta.status ELSE "missing"

\* ---------------------------------------------------------- configuration
\* config.py is the set of the names it defines; NoFile: there is no config.py.
SettingNames ==
  {"API_URL", "API_KEY", "TASKS_DIRECTORY", "PENDING_DIRECTORY", "COMPLETED_DIRECTORY",
   "FAILED_DIRECTORY", "REQUEST_TIMEOUT", "DEFAULT_MODEL", "DEFAULT_WORKSPACE"}
AllSettings == SettingNames
NoFile == {"<no config.py>"}

\* getattr(config_module, name, default), a defined name holding value.
Getattr(st, name, value, default) == IF name \in st THEN value ELSE default

\* load_config: the dictionary, or NoConfig (None) when there is no file or a
\* key of required_keys holds None.
NoConfig == [none |-> TRUE]
load_config(st) ==
  LET loaded_config ==
        [none |-> FALSE,
         api_url |-> Getattr(st, "API_URL", "url", "None"),
         api_key |-> Getattr(st, "API_KEY", "key", ""),
         tasks_directory |-> Getattr(st, "TASKS_DIRECTORY", "./tasks", "./tasks"),
         pending_directory |-> Getattr(st, "PENDING_DIRECTORY", "pending", "pending"),
         completed_directory |-> Getattr(st, "COMPLETED_DIRECTORY", "completed", "completed"),
         failed_directory |-> Getattr(st, "FAILED_DIRECTORY", "failed", "failed"),
         request_timeout |-> Getattr(st, "REQUEST_TIMEOUT", "300", "300"),
         default_model |-> Getattr(st, "DEFAULT_MODEL", DefaultModel, "llama3"),
         default_workspace |-> Getattr(st, "DEFAULT_WORKSPACE", DefaultWorkspace, "None")]
      required_keys == DOMAIN loaded_config \ {"none"}
  IN IF st = NoFile THEN NoConfig
     ELSE IF \E key \in required_keys : loaded_config[key] = "None" THEN NoConfig
     ELSE loaded_config

\* get_config: the configuration, loaded on first use.
get_config(st) == load_config(st)

\* ------------------------------------------------------------------ inputs
\* Replies of the task call and of the evaluator call, and the other outcomes
\* of the HTTP request.
TaskReplies == {<<>>, <<"O", "K">>, <<"x">>}
EvalReplies == {<<>>, <<"x">>, <<"x", "J:no2", "x">>, <<"J:yes">>, <<"J:list">>, <<"J:accnum">>}
HttpFailures ==
  {HttpFail(k) : k \in {"timeout", "body_not_json", "json_array", "choices_missing",
                        "choices_null", "choices_empty", "content_null"}}
TaskHttp == HttpFailures \cup {HttpReply(t) : t \in TaskReplies}
EvalHttp == {HttpFail("timeout"), HttpFail("choices_null")} \cup {HttpReply(t) : t \in EvalReplies}

\* Documents found in the pending directory when the run starts: created by
\* the dashboard or by hand, or left by an earlier run or a crash.  The
\* complete one was stamped (created_at, task_id) the second before the run,
\* by a move_to_completed whose rename did not happen.
Ok == <<"o", "k">>
Doc(status, reason, criteria, text) ==
  [fm |-> TRUE,
   meta |-> [EmptyMeta EXCEPT !.status = status, !.failure_reason = reason,
                              !.criteria = criteria],
   text |-> text]
InitDocs ==
  { Doc("pending", "absent", CritAbsent, <<NL, NL, "t">>),
    Doc("pending", "absent", CritStr(Ok), <<NL, NL, "t", NL, AC, NL, "c">>),
    Doc("running", "absent", CritAbsent, <<NL, NL, "t">>),
    [Doc("complete", "absent", CritAbsent, <<NL, NL, "t">> \o ResponseSection(<<"x">>))
       EXCEPT !.meta.created_at = -1, !.meta.task_id = -1],
    Doc("failed", "API Request Failed", CritAbsent, <<NL, NL, "t">>),
    Doc("incomplete", "Completion criteria not met", CritStr(Ok),
        <<NL, NL, "t">> \o ResponseSection(<<"x">>)),
    [fm |-> FALSE, meta |-> EmptyMeta, text |-> <<"t">>] }

NameA == <<Base(1)>>
NameB == <<Base(2)>>
InitFs ==
  { [q \in {Pend(NameA)} |-> d] : d \in InitDocs }
  \cup { [q \in {Pend(NameA), Pend(NameB)} |-> Doc("pending", "absent", CritAbsent, <<NL, NL, "t">>)] }

\* ------------------------------------------------------------------- state
VARIABLES
  fs,           \* the files: path -> file
  now,          \* the clock, in seconds
  eng,          \* per pass: main()'s and process_markdown_file()'s locals and position
  inv,          \* per pass: what the current engine invocation has done (history)
  invocations,  \* engine invocations started so far
  faults,       \* I/O faults injected so far
  settings,     \* config.py: the names it defines, or NoFile
  limit,        \* how far the run is explored: invocations and faults allowed
  probe,        \* a function under test: its name, arguments and result
  sched         \* the dashboard's scheduler: its flag and its threads

vars == <<fs, now, eng, inv, invocations, faults, settings, limit, probe, sched>>

NoExc == [type |-> "none", origin |-> "none"]
IdleEng ==
  [pc |-> "idle", todo |-> {}, listed |-> {}, invoked |-> {}, file |-> <<>>,
   meta |-> EmptyMeta, content |-> <<>>, send |-> <<>>, model |-> "absent",
   criteria |-> CritAbsent, resp |-> None, log |-> NoLog, rtw |-> None,
   evalResp |-> <<>>, steps |-> <<>>, stepIdx |-> 0, dest |-> "none", exc |-> NoExc]
\* No function is under test.
NoProbe == [fn |-> "none"]
\* The scheduler of app.py: orchestrator_running, and for each thread that
\* start_orchestrator can create where it is in run_orchestrator (none: not
\* created) and whether a stop was requested since it was created.
NoSched ==
  [running |-> FALSE, th |-> [t \in Procs |-> [pc |-> "none", stopped |-> FALSE]]]
\* The history of one invocation: the file it was called on, the status it
\* found (entry), the files at the call (fs0), whether and when its running
\* write landed (running, stamp), the requests it sent (calls), the statuses
\* its final write persisted (final), the subtasks it wrote (spawned), how its
\* rename went (moved) and where the document now is (cur).
NoInv ==
  [file |-> <<>>, entry |-> "none", fs0 |-> <<>>, running |-> FALSE, stamp |-> 0,
   calls |-> <<>>, final |-> <<>>, spawned |-> {}, moved |-> "none", cur |-> Pend(<<>>)]

\* A request as the history records it: which call, the outcome of the HTTP
\* request and the reply text, the prompt, and the status and timestamp the
\* document's file held when the request was sent.
Call(kind, http, prompt, f, path) ==
  [kind |-> kind, k |-> http.k, reply |-> http.text, prompt |-> prompt,
   status |-> StatusAt(f, path),
   updated |-> IF path \in DOMAIN f THEN f[path].meta.last_updated ELSE 0]

Init ==
  /\ fs \in InitFs
  /\ now = 1
  /\ eng = [p \in Procs |-> IdleEng]
  /\ inv = [p \in Procs |-> NoInv]
  /\ invocations = 0
  /\ faults = 0
  /\ settings = AllSettings
  /\ limit = [invocations |-> MaxInvocations, faults |-> MaxFaults]
  /\ probe = NoProbe
  /\ sched = NoSched

\* time.strftime: the clock read, which has not gone back and may have ticked.
Later(t) == {u \in t..MaxTime : u <= t + 1}

\* An I/O operation that succeeds (ok) or is one of the run's faults.
Fault(ok) ==
  /\ ~ok => faults < limit.faults
  /\ faults' = IF ok THEN faults ELSE faults + 1

\* An exception leaves process_markdown_file.
Raise(e, type, origin) == [e EXCEPT !.pc = "raised", !.exc = [type |-> type, origin |-> origin]]

\* ------------------------------------------------------------ the scanner
\* os.listdir(pending_directory): the names in the pending directory of f.
PendingNames(f) == {q.name : q \in {x \in DOMAIN f : x.dir = "pending"}}

\* main(): without a configuration it returns at once; else it lists the
\* pending directory, and has nothing to do when that is empty.
StartPass(p) ==
  /\ eng[p].pc \in {"idle", "passdone", "aborted", "refused"}
  /\ invocations < limit.invocations
  /\ LET cfg == get_config(settings)
         md_files == PendingNames(fs)
     IN
       eng' = [eng EXCEPT ![p] =
                 IF cfg.none THEN [IdleEng EXCEPT !.pc = "refused"]
                 ELSE [IdleEng EXCEPT !.pc = IF md_files = {} THEN "passdone" ELSE "scan",
                                      !.todo = md_files, !.listed = md_files]]
  /\ inv' = [inv EXCEPT ![p] = NoInv]
  /\ UNCHANGED <<fs, now, invocations, faults, settings, limit, probe, sched>>

\* main(): the loop calls process_markdown_file on the next listed file.
Invoke(p) ==
  /\ eng[p].pc = "scan"
  /\ invocations < limit.invocations
  /\ \E f \in eng[p].todo :
       /\ eng' = [eng EXCEPT ![p].pc = "read", ![p].file = f,
                             ![p].todo = @ \ {f}, ![p].invoked = @ \cup {f}]
       /\ inv' = [inv EXCEPT ![p] = [NoInv EXCEPT !.file = f, !.fs0 = fs, !.cur = Pend(f)]]
  /\ invocations' = invocations + 1
  /\ UNCHANGED <<fs, now, faults, settings, limit, probe, sched>>

\* main(): the loop is over.
EndPass(p) ==
  /\ eng[p].pc = "scan"
  /\ eng[p].todo = {}
  /\ eng' = [eng EXCEPT ![p].pc = "passdone"]
  /\ UNCHANGED <<fs, now, inv, invocations, faults, settings, limit, probe, sched>>

\* process_markdown_file returned: back in main()'s loop.
Return(p) ==
  /\ eng[p].pc = "returned"
  /\ eng' = [eng EXCEPT ![p] =
               [IdleEng EXCEPT !.pc = "scan", !.todo = eng[p].todo,
                               !.listed = eng[p].listed, !.invoked = eng[p].invoked]]
  /\ inv' = [inv EXCEPT ![p] = NoInv]
  /\ UNCHANGED <<fs, now, invocations, faults, settings, limit, probe, sched>>

\* process_markdown_file raised: main() has no handler, the pass dies.
Propagate(p) ==
  /\ eng[p].pc = "raised"
  /\ eng' = [eng EXCEPT ![p] =
               [IdleEng EXCEPT !.pc = "aborted", !.todo = eng[p].todo,
                               !.listed = eng[p].listed, !.invoked = eng[p].invoked,
                               !.exc = eng[p].exc]]
  /\ inv' = [inv EXCEPT ![p] = NoInv]
  /\ UNCHANGED <<fs, now, invocations, faults, settings, limit, probe, sched>>

\* ------------------------------------------------------------- the engine
\* StatusBranch without the test for running: a running document is processed.
StatusBranch_RunningProcessed(current_status) ==
  CASE current_status = "complete" -> [pc |-> "mv_write", dest |-> "completed"]
    [] current_status = "failed" -> [pc |-> "mv_write", dest |-> "failed"]
    [] OTHER -> [pc |-> "wr_running", dest |-> "none"]

\* StatusBranch without the tests for complete and failed: a document that
\* holds a terminal status is processed again.
StatusBranch_TerminalProcessed(current_status) ==
  CASE current_status = "running" -> [pc |-> "returned", dest |-> "none"]
    [] OTHER -> [pc |-> "wr_running", dest |-> "none"]

\* Step 2: where the status found in the file sends the engine, and the
\* directory the document is to be moved to.
StatusBranch(current_status) ==
  CASE current_status = "complete" -> [pc |-> "mv_write", dest |-> "completed"]
    [] current_status = "failed" -> [pc |-> "mv_write", dest |-> "failed"]
    [] current_status = "running" -> [pc |-> "returned", dest |-> "none"]
    [] OTHER -> [pc |-> "wr_running", dest |-> "none"]

\* AfterRunningWrite with the error of the write swallowed.
AfterRunningWrite_Always(w) == "submit"

\* Step 4's except clause: the engine goes on to the task call only when the
\* write of the running status succeeded.
AfterRunningWrite(w) == IF w = "ok" THEN "submit" ELSE "returned"

\* AfterFinalWrite with the evaluator step taken for every status but failed.
AfterFinalWrite_EvaluateIncomplete(status) ==
  CASE status = "failed" -> [pc |-> "mv_write", dest |-> "failed"]
    [] OTHER -> [pc |-> "eval", dest |-> "completed"]

\* AfterFinalWrite with the task call made again after a failure.
AfterFinalWrite_RetryFailed(status) ==
  CASE status = "complete" -> [pc |-> "eval", dest |-> "completed"]
    [] status = "failed" -> [pc |-> "submit", dest |-> "none"]
    [] OTHER -> [pc |-> "returned", dest |-> "none"]

\* AfterFinalWrite with a failed document sent to the completed directory.
AfterFinalWrite_FailedToCompleted(status) ==
  CASE status = "complete" -> [pc |-> "eval", dest |-> "completed"]
    [] status = "failed" -> [pc |-> "mv_write", dest |-> "completed"]
    [] OTHER -> [pc |-> "returned", dest |-> "none"]

\* AfterFinalWrite with a complete document moved at once, no evaluator step.
AfterFinalWrite_MoveComplete(status) ==
  CASE status = "complete" -> [pc |-> "mv_write", dest |-> "completed"]
    [] status = "failed" -> [pc |-> "mv_write", dest |-> "failed"]
    [] OTHER -> [pc |-> "returned", dest |-> "none"]

\* Step 8: what follows the final write, by the status it persisted.
AfterFinalWrite(status) ==
  CASE status = "complete" -> [pc |-> "eval", dest |-> "completed"]
    [] status = "failed" -> [pc |-> "mv_write", dest |-> "failed"]
    [] OTHER -> [pc |-> "returned", dest |-> "none"]

\* What open(path, 'r').read() can return: the file, or nothing when another
\* pass is at a write of the same file (open(path, 'w') has truncated it and
\* the text is not written yet).
ReadOutcomes(p, path) ==
  {fs[path]}
  \cup {EmptyFile : q \in {x \in Procs \ {p} :
                              /\ eng[x].pc \in {"wr_running", "final", "mv_write"}
                              /\ Pend(eng[x].file) = path}}

\* process_markdown_file, steps 1-4: parse the file, branch on its status,
\* strip the criteria section, read model and criteria.
Read(p) ==
  /\ eng[p].pc = "read"
  /\ \E ok \in BOOLEAN,
        seen \in IF Pend(eng[p].file) \in DOMAIN fs
                  THEN ReadOutcomes(p, Pend(eng[p].file)) ELSE {EmptyFile} :
       LET e == eng[p]
           path == Pend(e.file)
       IN
       /\ Fault(ok)
       /\ IF ~ok \/ path \notin DOMAIN fs
            THEN /\ eng' = [eng EXCEPT ![p].pc = "returned"]
                 /\ inv' = [inv EXCEPT ![p].entry = "unreadable"]
            ELSE LET r == parse_frontmatter(seen)
                     current_status == IF r.meta.status = "absent" THEN "pending"
                                       ELSE r.meta.status
                     e1 == [e EXCEPT !.meta = r.meta, !.content = r.content]
                     br == StatusBranch(current_status)
                 IN
                 /\ inv' = [inv EXCEPT ![p].entry = current_status]
                 /\ eng' = [eng EXCEPT ![p] =
                      IF br.pc # "wr_running"
                        THEN [e1 EXCEPT !.pc = br.pc, !.dest = br.dest]
                        ELSE [e1 EXCEPT !.pc = "wr_running",
                                        !.send = strip_acceptance_criteria(r.content),
                                        !.model = IF r.meta.model = "absent"
                                                    THEN get_config(settings).default_model
                                                    ELSE r.meta.model,
                                        !.criteria = r.meta.criteria]]
  /\ UNCHANGED <<fs, now, invocations, settings, limit, probe, sched>>

\* Step 4: metadata['status'] = 'running', the timestamp, and the write; a
\* failed write is caught and the function returns.
WriteRunning(p) ==
  /\ eng[p].pc = "wr_running"
  /\ \E t \in Later(now), w \in WriteOutcomes :
       LET e == eng[p]
           m == [e.meta EXCEPT !.status = "running", !.last_updated = t]
       IN
       /\ Fault(w = "ok")
       /\ now' = t
       /\ fs' = WriteFile(fs, Pend(e.file), write_frontmatter(m, e.content, None), w)
       /\ eng' = [eng EXCEPT ![p] =
                    [e EXCEPT !.meta = m, !.pc = AfterRunningWrite(w)]]
       /\ inv' = [inv EXCEPT ![p].running = (w = "ok"),
                             ![p].stamp = IF w = "ok" THEN t ELSE @]
  /\ UNCHANGED <<invocations, settings, limit, probe, sched>>

\* Step 5: the task call.
Submit(p) ==
  /\ eng[p].pc = "submit"
  /\ \E http \in TaskHttp, jsonErrCaught \in BOOLEAN :
       LET e == eng[p]
           r == submit_to_openwebui(http, jsonErrCaught)
       IN
       /\ eng' = [eng EXCEPT ![p] =
                    IF r.raised THEN Raise(e, r.exc, "submit_to_openwebui")
                    ELSE [e EXCEPT !.pc = "final", !.resp = r.content, !.log = r.log]]
       /\ inv' = [inv EXCEPT ![p].calls =
                    Append(@, Call("task", http, e.send, fs, Pend(e.file)))]
  /\ UNCHANGED <<fs, now, invocations, faults, settings, limit, probe, sched>>

\* The status, and failure reason, steps 6 sets for a reply and criteria.
Evaluated(meta, llm_response, criteria) ==
  IF Truthy(llm_response)
    THEN IF check_completion_criteria(llm_response.text, criteria)
           THEN [meta EXCEPT !.status = "complete"]
           ELSE [meta EXCEPT !.status = "incomplete",
                             !.failure_reason = "Completion criteria not met"]
    ELSE [meta EXCEPT !.status = "failed", !.failure_reason = "API Request Failed"]

\* Steps 6 and 7: evaluate the reply, format the error log when there is no
\* reply, and write the file with the response.
FinalWrite(p) ==
  /\ eng[p].pc = "final"
  /\ \E t \in Later(now), w \in WriteOutcomes :
       LET e == eng[p]
           m == [Evaluated(e.meta, e.resp, e.criteria) EXCEPT !.last_updated = t]
           fmt == format_error_log(e.log)
           formatFails == ~Truthy(e.resp) /\ fmt.raised
           response_to_write == IF Truthy(e.resp) THEN e.resp ELSE Str(fmt.text)
       IN
       /\ now' = t
       /\ formatFails => w = "ok"
       /\ Fault(w = "ok")
       /\ IF formatFails
            THEN /\ eng' = [eng EXCEPT ![p] =
                              Raise([e EXCEPT !.meta = m], fmt.exc, "format_error_log")]
                 /\ UNCHANGED <<fs, inv>>
            ELSE /\ fs' = WriteFile(fs, Pend(e.file),
                                    write_frontmatter(m, e.content, response_to_write), w)
                 /\ eng' = [eng EXCEPT ![p] =
                      IF w # "ok" THEN Raise([e EXCEPT !.meta = m], "OSError", "write_frontmatter")
                      ELSE [e EXCEPT !.meta = m, !.rtw = response_to_write,
                                     !.dest = AfterFinalWrite(m.status).dest,
                                     !.pc = AfterFinalWrite(m.status).pc]]
                 /\ inv' = [inv EXCEPT ![p].final =
                              IF w = "ok" THEN Append(@, m.status) ELSE @]
  /\ UNCHANGED <<invocations, settings, limit, probe, sched>>

\* Step 8, status complete: the evaluator call, the parse of its reply, and
\* the choice of the subtasks to create.
Evaluate(p) ==
  /\ eng[p].pc = "eval"
  /\ \E http \in EvalHttp, jsonErrCaught \in BOOLEAN :
       LET e == eng[p]
           r == submit_to_openwebui(http, jsonErrCaught)
           json_data == parse_evaluator_response(r.content.text)
           acc == AcceptanceStatus(json_data)
           next_steps == IF acc.v = "no" THEN NextSteps(json_data) ELSE <<>>
       IN
       /\ eng' = [eng EXCEPT ![p] =
            IF r.raised THEN Raise(e, r.exc, "submit_to_openwebui")
            ELSE IF ~Truthy(r.content) THEN [e EXCEPT !.pc = "mv_write"]
            ELSE IF ~JsonTruthy(json_data)
                   THEN [e EXCEPT !.pc = "mk_eval", !.evalResp = r.content.text]
            ELSE IF acc.raised THEN Raise(e, "AttributeError", "process_markdown_file")
            ELSE [e EXCEPT !.evalResp = r.content.text, !.steps = next_steps, !.stepIdx = 1,
                           !.pc = IF next_steps # <<>> THEN "mk_steps" ELSE "mk_eval"]]
       /\ inv' = [inv EXCEPT ![p].calls =
                    Append(@, Call("eval", http, e.resp.text, fs, Pend(e.file)))]
  /\ UNCHANGED <<fs, now, invocations, faults, settings, limit, probe, sched>>

\* create_next_steps_subtasks: one pass of its loop, writing step stepIdx.
CreateNextStep(p) ==
  /\ eng[p].pc = "mk_steps"
  /\ \E t1 \in Later(now), w \in WriteOutcomes :
     \E t2 \in Later(t1) :
       LET e == eng[p]
           i == e.stepIdx
           subtask_name == CleanName(e.file) \o <<StepPart(i), DatePart, TimePart(t1)>>
           subtask_metadata ==
             [EmptyMeta EXCEPT !.status = "pending", !.model = e.model,
                               !.workspace = IF e.meta.workspace = "absent"
                                               THEN get_config(settings).default_workspace
                                               ELSE e.meta.workspace,
                               !.original_task = e.file, !.created_at = t2,
                               !.task_type = "next_step", !.step_number = i]
       IN
       /\ Fault(w = "ok")
       /\ now' = t2
       /\ fs' = WriteFile(fs, Pend(subtask_name),
                          write_frontmatter(subtask_metadata, e.steps[i], None), w)
       /\ eng' = [eng EXCEPT ![p] =
            IF w # "ok" THEN Raise(e, "OSError", "write_frontmatter")
            ELSE [e EXCEPT !.stepIdx = i + 1,
                           !.pc = IF i = Len(e.steps) THEN "mk_eval" ELSE "mk_steps"]]
       /\ inv' = [inv EXCEPT ![p].spawned =
                    IF w = "open_fails" THEN @ ELSE @ \cup {subtask_name}]
  /\ UNCHANGED <<invocations, settings, limit, probe, sched>>

\* create_subtask: the evaluation subtask, its body the evaluator's reply.
CreateSubtask(p) ==
  /\ eng[p].pc = "mk_eval"
  /\ \E t1 \in Later(now), w \in WriteOutcomes :
     \E t2 \in Later(t1) :
       LET e == eng[p]
           subtask_name == CleanName(e.file) \o <<DatePart, TimePart(t1)>>
           subtask_metadata ==
             [EmptyMeta EXCEPT !.status = "pending", !.model = e.model,
                               !.workspace = "evaluator", !.original_task = e.file,
                               !.created_at = t2, !.task_type = "evaluation"]
       IN
       /\ Fault(w = "ok")
       /\ now' = t2
       /\ fs' = WriteFile(fs, Pend(subtask_name),
                          write_frontmatter(subtask_metadata, e.evalResp, None), w)
       /\ eng' = [eng EXCEPT ![p] =
            IF w # "ok" THEN Raise(e, "OSError", "write_frontmatter")
            ELSE [e EXCEPT !.pc = "mv_write"]]
       /\ inv' = [inv EXCEPT ![p].spawned =
                    IF w = "open_fails" THEN @ ELSE @ \cup {subtask_name}]
  /\ UNCHANGED <<invocations, settings, limit, probe, sched>>

\* move_to_completed / move_to_failed, first half: created_at and task_id are
\* set and the file is rewritten in place with the response passed in.
MoveWrite(p) ==
  /\ eng[p].pc = "mv_write"
  /\ \E t \in Later(now), w \in WriteOutcomes :
       LET e == eng[p]
           id == generate_task_id(t)
           m == [e.meta EXCEPT !.created_at = t, !.task_id = id.full_hash]
       IN
       /\ Fault(w = "ok")
       /\ now' = t
       /\ fs' = WriteFile(fs, Pend(e.file), write_frontmatter(m, e.content, e.rtw), w)
       /\ eng' = [eng EXCEPT ![p] =
            IF w # "ok" THEN Raise([e EXCEPT !.meta = m], "OSError", "write_frontmatter")
            ELSE [e EXCEPT !.meta = m, !.pc = "mv_rename"]]
  /\ UNCHANGED <<inv, invocations, settings, limit, probe, sched>>

\* move_to_completed / move_to_failed, second half: os.rename into the
\* destination directory under the name with the short hash; an error is
\* caught and printed.
MoveRename(p) ==
  /\ eng[p].pc = "mv_rename"
  /\ \E ok \in BOOLEAN :
       LET e == eng[p]
           src == Pend(e.file)
           new_filename == e.file \o <<generate_task_id(e.meta.created_at).short_hash>>
           destination == InDir(e.dest, new_filename)
           done == ok /\ src \in DOMAIN fs
       IN
       /\ Fault(ok)
       /\ fs' = IF done THEN Rename(fs, src, destination) ELSE fs
       /\ eng' = [eng EXCEPT ![p].pc = "returned"]
       /\ inv' = [inv EXCEPT ![p].cur = IF done THEN destination ELSE @,
                             ![p].moved = IF done THEN "done" ELSE "failed"]
  /\ UNCHANGED <<now, invocations, settings, limit, probe, sched>>

Engine(p) ==
  \/ Read(p) \/ WriteRunning(p) \/ Submit(p) \/ FinalWrite(p) \/ Evaluate(p)
  \/ CreateNextStep(p) \/ CreateSubtask(p) \/ MoveWrite(p) \/ MoveRename(p)

Scanner(p) ==
  \/ StartPass(p) \/ Invoke(p) \/ EndPass(p) \/ Return(p) \/ Propagate(p)

Next == \E p \in SeqProcs : Scanner(p) \/ Engine(p)

Spec == Init /\ [][Next]_vars

\* The run of main() under each config.py: complete, lacking one setting, or
\* absent; one pending document, and no I/O fault.
ConfigFiles == {AllSettings, NoFile} \cup {AllSettings \ {k} : k \in SettingNames}

InitConfig ==
  /\ fs = [q \in {Pend(NameA)} |-> Doc("pending", "absent", CritAbsent, <<NL, NL, "t">>)]
  /\ now = 1
  /\ eng = [p \in Procs |-> IdleEng]
  /\ inv = [p \in Procs |-> NoInv]
  /\ invocations = 0
  /\ faults = 0
  /\ settings \in ConfigFiles
  /\ limit = [invocations |-> MaxInvocations, faults |-> 0]
  /\ probe = NoProbe
  /\ sched = NoSched

SpecConfig == InitConfig /\ [][Next]_vars

\* Runs of several invocations with no I/O fault, from two pending documents
\* whose names differ by a last part of six hexadecimal digits (report.md and
\* report_202611.md).
NameAh == <<Base(1), HashPart(0)>>

InitPasses ==
  /\ fs = [q \in {Pend(NameA), Pend(NameAh)} |->
             Doc("pending", "absent", CritAbsent, <<NL, NL, "t">>)]
  /\ now = 1
  /\ eng = [p \in Procs |-> IdleEng]
  /\ inv = [p \in Procs |-> NoInv]
  /\ invocations = 0
  /\ faults = 0
  /\ settings = AllSettings
  /\ limit = [invocations |-> MaxPassInvocations, faults |-> 0]
  /\ probe = NoProbe
  /\ sched = NoSched

SpecPasses == InitPasses /\ [][Next]_vars

\* Pass after pass from one pending document, with no I/O fault: the
\* subtasks a pass writes are the documents of the next.
InitChain ==
  /\ fs = [q \in {Pend(NameA)} |-> Doc("pending", "absent", CritAbsent, <<NL, NL, "t">>)]
  /\ now = 1
  /\ eng = [p \in Procs |-> IdleEng]
  /\ inv = [p \in Procs |-> NoInv]
  /\ invocations = 0
  /\ faults = 0
  /\ settings = AllSettings
  /\ limit = [invocations |-> MaxPassInvocations, faults |-> 0]
  /\ probe = NoProbe
  /\ sched = NoSched

SpecChain == InitChain /\ [][Next]_vars

\* The same, with the run going on while it can: main() runs to its end and
\* the scheduler starts pass after pass.
SpecChainFair == InitChain /\ [][Next]_vars /\ WF_vars(Next)

\* Two passes at once (the scheduler's and one started by hand, or two
\* schedulers) over one pending document with criteria, one invocation each,
\* no I/O fault, all within one second.
InitTwo ==
  /\ fs = [q \in {Pend(NameA)} |->
             Doc("pending", "absent", CritStr(Ok), <<NL, NL, "t", NL, AC, NL, "c">>)]
  /\ now = MaxTime
  /\ eng = [p \in Procs |-> IdleEng]
  /\ inv = [p \in Procs |-> NoInv]
  /\ invocations = 0
  /\ faults = 0
  /\ settings = AllSettings
  /\ limit = [invocations |-> Cardinality(Procs), faults |-> 0]
  /\ probe = NoProbe
  /\ sched = NoSched

NextTwo == \E p \in Procs : Scanner(p) \/ Engine(p)

SpecTwo == InitTwo /\ [][NextTwo]_vars

\* ------------------------------------------------ the dashboard scheduler
\* /orchestrator/start: refused while the flag is set; else sets it and
\* starts a thread on run_orchestrator.
start_orchestrator ==
  /\ ~sched.running
  /\ \E t \in Procs :
       /\ sched.th[t].pc = "none"
       /\ \A u \in Procs : sched.th[u].pc = "none" => t <= u
       /\ sched' = [sched EXCEPT !.running = TRUE, !.th[t].pc = "loop"]
  /\ UNCHANGED <<fs, now, eng, inv, invocations, faults, settings, limit, probe>>

\* /orchestrator/stop: refused while the flag is clear; else clears it.
stop_orchestrator ==
  /\ sched.running
  /\ sched' = [running |-> FALSE,
               th |-> [t \in Procs |->
                         IF sched.th[t].pc \in {"loop", "run", "sleep"}
                           THEN [sched.th[t] EXCEPT !.stopped = TRUE]
                           ELSE sched.th[t]]]
  /\ UNCHANGED <<fs, now, eng, inv, invocations, faults, settings, limit, probe>>

\* run_orchestrator, 'while orchestrator_running': the thread ends, or starts
\* orchestrator.py as a subprocess and waits for it.
WhileRunning(t) ==
  /\ sched.th[t].pc = "loop"
  /\ IF sched.running
       THEN /\ invocations < limit.invocations
            /\ sched' = [sched EXCEPT !.th[t].pc = "run"]
            /\ eng' = [eng EXCEPT ![t] = IdleEng]
            /\ inv' = [inv EXCEPT ![t] = NoInv]
       ELSE /\ sched' = [sched EXCEPT !.th[t].pc = "exited"]
            /\ UNCHANGED <<eng, inv>>
  /\ UNCHANGED <<fs, now, invocations, faults, settings, limit, probe>>

\* subprocess.run returns when main() has returned or died.
SubprocessReturns(t) ==
  /\ sched.th[t].pc = "run"
  /\ eng[t].pc \in {"passdone", "aborted", "refused"}
  /\ sched' = [sched EXCEPT !.th[t].pc = "sleep"]
  /\ UNCHANGED <<fs, now, eng, inv, invocations, faults, settings, limit, probe>>

\* The wait between passes is over: 300 seconds have gone by, or the flag
\* was found clear.
SleepEnds(t) ==
  /\ sched.th[t].pc = "sleep"
  /\ sched' = [sched EXCEPT !.th[t].pc = "loop"]
  /\ UNCHANGED <<fs, now, eng, inv, invocations, faults, settings, limit, probe>>

\* The subprocess of thread t: main() over a pending directory whose one
\* document is held with status running, which the engine reads and leaves.
Subprocess(t) ==
  /\ sched.th[t].pc = "run"
  /\ \/ eng[t].pc = "idle" /\ StartPass(t)
     \/ Invoke(t) \/ Read(t) \/ Return(t) \/ EndPass(t)

InitSched ==
  /\ fs = [q \in {Pend(NameA)} |-> Doc("running", "absent", CritAbsent, <<NL, NL, "t">>)]
  /\ now = 1
  /\ eng = [p \in Procs |-> IdleEng]
  /\ inv = [p \in Procs |-> NoInv]
  /\ invocations = 0
  /\ faults = 0
  /\ settings = AllSettings
  /\ limit = [invocations |-> MaxPassInvocations, faults |-> 0]
  /\ probe = NoProbe
  /\ sched = NoSched

NextSched ==
  \/ start_orchestrator
  \/ stop_orchestrator
  \/ \E t \in Procs :
       WhileRunning(t) \/ SubprocessReturns(t) \/ SleepEnds(t) \/ Subprocess(t)

SpecSched == InitSched /\ [][NextSched]_vars

\* ------------------------------------------- the two functions on their own
\* strip_acceptance_criteria on every body of up to MaxBodyLen pieces (a
\* document without frontmatter gives its text as the body, unstripped), and
\* check_completion_criteria on every non-empty reply of up to MaxReplyLen
\* letters with every criteria value below.
Seqs(S, lo, hi) == UNION {[1..k -> S] : k \in lo..hi}
BodyTokens == {AC, "## Next", "t", " ", NL}
Bodies == Seqs(BodyTokens, 0, MaxBodyLen)
ReplyLetters == {"o", "K", "x"}
Replies == Seqs(ReplyLetters, 1, MaxReplyLen)
\* Values parse_frontmatter gives completion_criteria (none, a str, False and
\* True, 0 and 42), and the dicts a caller can pass.
CriteriaTexts == {<<>>, Ok, <<"O", "k">>, <<"x">>}
CriteriaValues ==
  {CritAbsent, CritBool(FALSE), CritBool(TRUE), CritInt(0), CritInt(42)}
  \cup {CritStr(s) : s \in CriteriaTexts}
  \cup {CritDict(TRUE, s, FALSE, 0) : s \in CriteriaTexts}
  \cup {CritDict(FALSE, <<>>, TRUE, n) : n \in 0..(MaxReplyLen + 1)}
  \cup {CritDict(TRUE, s, TRUE, n) : s \in CriteriaTexts, n \in 0..(MaxReplyLen + 1)}
  \cup {CritDict(FALSE, <<>>, FALSE, 0)}

\* The function under test, its argument(s), and its results so far: outs are
\* the results of stripping the body and of stripping that result again; ok
\* is the result of the criteria check once done.
StripProbe(body) ==
  [fn |-> "strip", body |-> body, outs |-> <<>>,
   reply |-> <<>>, criteria |-> CritAbsent, done |-> FALSE, ok |-> FALSE]
CriteriaProbe(reply, criteria) ==
  [fn |-> "criteria", body |-> <<>>, outs |-> <<>>,
   reply |-> reply, criteria |-> criteria, done |-> FALSE, ok |-> FALSE]

InitPure ==
  /\ fs = [q \in {} |-> EmptyFile]
  /\ now = 1
  /\ eng = [p \in Procs |-> IdleEng]
  /\ inv = [p \in Procs |-> NoInv]
  /\ invocations = 0
  /\ faults = 0
  /\ settings = AllSettings
  /\ limit = [invocations |-> 0, faults |-> 0]
  /\ probe \in {StripProbe(b) : b \in Bodies}
                \cup {CriteriaProbe(r, c) : r \in Replies, c \in CriteriaValues}
  /\ sched = NoSched

\* content_to_send = strip_acceptance_criteria(content), on the body and then
\* on what it returned.
ApplyStrip ==
  /\ probe.fn = "strip"
  /\ Len(probe.outs) < 2
  /\ probe' = [probe EXCEPT !.outs =
         Append(@, strip_acceptance_criteria(IF @ = <<>> THEN probe.body ELSE @[1]))]
  /\ UNCHANGED <<fs, now, eng, inv, invocations, faults, settings, limit, sched>>

\* is_complete = check_completion_criteria(llm_response, criteria)
ApplyCriteria ==
  /\ probe.fn = "criteria"
  /\ ~probe.done
  /\ probe' = [probe EXCEPT !.done = TRUE,
                            !.ok = check_completion_criteria(probe.reply, probe.criteria)]
  /\ UNCHANGED <<fs, now, eng, inv, invocations, faults, settings, limit, sched>>

NextPure == ApplyStrip \/ ApplyCriteria

SpecPure == InitPure /\ [][NextPure]_vars

\* --------------------------------------------------- the codec on its own
\* write_frontmatter then parse_frontmatter of what it wrote, for dicts of up
\* to two items, bodies of up to MaxCodecBodyLen pieces, and no response, an
\* empty one or a reply.
CodecKeys == {<<"k">>, <<"K">>}
CodecTexts ==
  {<<>>, <<"x">>, <<"true">>, <<"7">>, <<"x", ":", "x">>, <<" ", "x">>,
   <<Q, "x", Q>>, <<"x", NL, "x">>, <<"---">>}
CodecValues ==
  {VStr(t) : t \in CodecTexts} \cup {VBool(TRUE), VBool(FALSE), VInt(0), VInt(7), VNone}
CodecMetadata ==
  {<<>>}
  \cup {<<Item(k, v)>> : k \in CodecKeys, v \in CodecValues}
  \cup {<<Item(kk[1], v1), Item(kk[2], v2)>> :
          kk \in {pair \in CodecKeys \X CodecKeys : pair[1] # pair[2]},
          v1 \in {VStr(<<"x">>), VInt(7)}, v2 \in CodecValues}
CodecBodies == Seqs({"t", " ", NL, "---"}, 0, MaxCodecBodyLen)
CodecResponses == {None, Str(<<>>), Str(<<"x">>)}

CodecProbe(metadata, body, response) ==
  [fn |-> "codec", metadata |-> metadata, body |-> body, response |-> response,
   done |-> FALSE, text |-> <<>>, meta |-> <<>>, content |-> <<>>]

InitCodec ==
  /\ fs = [q \in {} |-> EmptyFile]
  /\ now = 1
  /\ eng = [p \in Procs |-> IdleEng]
  /\ inv = [p \in Procs |-> NoInv]
  /\ invocations = 0
  /\ faults = 0
  /\ settings = AllSettings
  /\ limit = [invocations |-> 0, faults |-> 0]
  /\ probe \in {CodecProbe(m, b, r) :
                  m \in CodecMetadata, b \in CodecBodies, r \in CodecResponses}
  /\ sched = NoSched

\* write_frontmatter(filepath, metadata, content, response), then
\* parse_frontmatter(filepath)
WriteThenParse ==
  /\ probe.fn = "codec"
  /\ ~probe.done
  /\ LET text == write_frontmatter_text(probe.metadata, probe.body, probe.response)
         r == parse_frontmatter_text(text)
     IN probe' = [probe EXCEPT !.done = TRUE, !.text = text,
                               !.meta = r.meta, !.content = r.content]
  /\ UNCHANGED <<fs, now, eng, inv, invocations, faults, settings, limit, sched>>

NextCodec == WriteThenParse

SpecCodec == InitCodec /\ [][NextCodec]_vars

\* ------------------------------------------------------------------ claims
\* The invocation of pass p is over: it returned to main(), or it raised.
Ended(p) == eng[p].pc \in {"returned", "raised"}

\* The document of p's invocation is where its persisted status says: in
\* completed iff complete, in failed iff failed, in pending otherwise.
LocationAgrees(p) ==
  LET cur == inv[p].cur
      st == StatusAt(fs, cur)
  IN /\ cur \in DOMAIN fs
     /\ cur.dir = "completed" <=> st = "complete"
     /\ cur.dir = "failed" <=> st = "failed"
     /\ cur.dir = "pending" <=> st \notin {"complete", "failed"}
     /\ cur # Pend(inv[p].file) => Pend(inv[p].file) \notin DOMAIN fs

\* C1, as amended: when an invocation returns, and it could read the document
\* and no rename of the document failed, the document's location agrees with
\* its persisted status.
C1_LocationAgreesUnlessSkipped ==
  \A p \in Procs :
    (eng[p].pc = "returned" /\ inv[p].entry # "unreadable" /\ inv[p].moved # "failed")
      => LocationAgrees(p)

\* An invocation processed a document afresh, moved it to the completed
\* directory and returned.
C1_Witness ==
  \E p \in Procs :
    /\ eng[p].pc = "returned"
    /\ inv[p].running
    /\ inv[p].moved = "done"
    /\ inv[p].cur.dir = "completed"

\* C1 as stated: whenever an invocation returns, the document's location
\* agrees with its persisted status.
C1_LocationAgreesOnReturn ==
  \A p \in Procs : eng[p].pc = "returned" => LocationAgrees(p)

\* C2: an invocation that persisted status running persists exactly one of
\* complete, incomplete, failed before it ends, whatever the endpoint returns,
\* and does not leave the document with status running (no I/O fault needed).
C2_RunningThenOneTerminal ==
  \A p \in Procs :
    (Ended(p) /\ inv[p].running /\ faults = 0)
      => /\ Len(inv[p].final) = 1
         /\ inv[p].final[1] \in {"complete", "incomplete", "failed"}
         /\ StatusAt(fs, inv[p].cur) # "running"

\* C3: every task request is sent after the running status, with the
\* timestamp of that write, was persisted to the document; an invocation whose
\* running write failed sends no request.
C3_RunningBeforeRequest ==
  \A p \in Procs :
    /\ \A i \in 1..Len(inv[p].calls) :
         inv[p].calls[i].kind = "task"
           => /\ inv[p].running
              /\ inv[p].calls[i].status = "running"
              /\ inv[p].stamp \in 1..MaxTime
              /\ inv[p].calls[i].updated = inv[p].stamp
    /\ ~inv[p].running => inv[p].calls = <<>>

\* The task request of an invocation has just been sent, the document's file
\* holding status running.
C3_Witness ==
  \E p \in Procs :
    /\ eng[p].pc = "final"
    /\ Len(inv[p].calls) = 1
    /\ inv[p].calls[1].kind = "task"
    /\ inv[p].calls[1].status = "running"

\* C4: an invocation that finds status running returns at once: no request,
\* no file written, moved or created.
C4_RunningUntouched ==
  \A p \in Procs :
    inv[p].entry = "running"
      => /\ eng[p].pc = "returned"
         /\ fs = inv[p].fs0
         /\ inv[p].calls = <<>>
         /\ inv[p].spawned = {}
         /\ inv[p].moved = "none"

\* An invocation found status running and has returned.
C4_Witness ==
  \E p \in Procs : inv[p].entry = "running" /\ eng[p].pc = "returned"

\* C5: an invocation that finds status complete (failed) in the pending
\* directory sends no request and creates no subtask; it leaves every other
\* file as it was, and the document goes nowhere but the completed (failed)
\* directory, where it holds the status it had.
C5_TerminalOnlyMoved ==
  \A p \in Procs :
    inv[p].entry \in {"complete", "failed"}
      => LET m == inv[p]
             matching == IF m.entry = "complete" THEN "completed" ELSE "failed"
         IN /\ m.calls = <<>>
            /\ m.spawned = {}
            /\ PendingNames(fs) \subseteq PendingNames(m.fs0)
            /\ \A q \in DOMAIN m.fs0 :
                 q # Pend(m.file) => q \in DOMAIN fs /\ fs[q] = m.fs0[q]
            /\ m.cur.dir \in {"pending", matching}
            /\ m.moved = "done"
                 => /\ m.cur.dir = matching
                    /\ StatusAt(fs, m.cur) = m.entry
                    /\ Pend(m.file) \notin DOMAIN fs

\* An invocation found status failed in the pending directory and has moved
\* the document to the failed directory.
C5_Witness ==
  \E p \in Procs :
    /\ inv[p].entry = "failed"
    /\ inv[p].moved = "done"
    /\ inv[p].cur.dir = "failed"
    /\ eng[p].pc = "returned"

\* The outcomes of the HTTP request with no reply field to read.
NoReplyOutcomes ==
  {"timeout", "connection_error", "http_status", "choices_missing", "choices_null",
   "choices_empty", "content_missing"}

\* C6: when the task call fails (no I/O fault needed), the invocation ends
\* with the document in the failed directory, status failed, failure_reason
\* "API Request Failed", and a response section holding the error report.
C6_FailureRecorded ==
  \A p \in Procs :
    (Ended(p) /\ faults = 0 /\ inv[p].calls # <<>>
       /\ inv[p].calls[1].kind = "task" /\ inv[p].calls[1].k \in NoReplyOutcomes)
      => /\ inv[p].cur.dir = "failed"
         /\ inv[p].cur \in DOMAIN fs
         /\ fs[inv[p].cur].meta.status = "failed"
         /\ fs[inv[p].cur].meta.failure_reason = "API Request Failed"
         /\ Contains(fs[inv[p].cur].text, <<"## Response", NL, NL, "## Error Log">>)

\* C7: when the task call returns a reply, the empty text included (no I/O
\* fault needed), the status persisted is complete iff
\* check_completion_criteria accepts the reply, else incomplete with
\* failure_reason "Completion criteria not met"; never failed.
C7_ReplyDecidesStatus ==
  \A p \in Procs :
    (Ended(p) /\ faults = 0 /\ inv[p].calls # <<>>
       /\ inv[p].calls[1].kind = "task" /\ inv[p].calls[1].k = "content")
      => LET accepted == check_completion_criteria(eng[p].resp.text, eng[p].criteria)
         IN /\ inv[p].final = << IF accepted THEN "complete" ELSE "incomplete" >>
            /\ ~accepted
                 => /\ inv[p].cur \in DOMAIN fs
                    /\ fs[inv[p].cur].meta.failure_reason = "Completion criteria not met"

\* C8: a pass that has ended ended normally, with the engine invoked on every
\* file it listed.
C8_PassContinues ==
  \A p \in Procs :
    eng[p].pc \in {"passdone", "aborted"}
      => eng[p].pc = "passdone" /\ eng[p].invoked = eng[p].listed

\* C9: no exception leaves submit_to_openwebui, whatever the HTTP request
\* comes to.
C9_ClientNeverRaises ==
  \A p \in Procs : eng[p].exc.origin # "submit_to_openwebui"

\* C10: an invocation sends the evaluator request, or writes a subtask, only
\* after its final write persisted status complete for a reply its own task
\* call returned; an invocation whose final write persisted failed or
\* incomplete sends no evaluator request and adds no pending file.
C10_EvaluatorOnlyAfterComplete ==
  \A p \in Procs :
    LET m == inv[p]
        evalCalls == {i \in 1..Len(m.calls) : m.calls[i].kind = "eval"}
    IN /\ (evalCalls # {} \/ m.spawned # {})
            => /\ m.final = <<"complete">>
               /\ m.running
               /\ m.calls[1].kind = "task"
               /\ m.calls[1].k = "content"
               /\ Truthy(eng[p].resp)
               /\ \A i \in evalCalls : i > 1 /\ m.calls[i].status = "complete"
       /\ (m.final # <<>> /\ m.final[Len(m.final)] \in {"failed", "incomplete"})
            => /\ evalCalls = {}
               /\ m.spawned = {}
               /\ PendingNames(fs) \subseteq PendingNames(m.fs0)

\* An invocation persisted status complete, sent the evaluator request and
\* has written a subtask.
C10_Witness ==
  \E p \in Procs :
    /\ inv[p].final = <<"complete">>
    /\ inv[p].spawned # {}
    /\ \E i \in 1..Len(inv[p].calls) : inv[p].calls[i].kind = "eval"

\* The evaluator requests of p's invocation that came back with a reply text.
EvalReplied(p) ==
  {i \in 1..Len(inv[p].calls) :
     inv[p].calls[i].kind = "eval" /\ inv[p].calls[i].k = "content"}

\* The pending files p's invocation added.
NewPending(p) == PendingNames(fs) \ PendingNames(inv[p].fs0)

\* C11: an invocation whose evaluator call returned a reply (no I/O fault
\* needed) ends with n + 1 new pending documents when the reply parses to a
\* verdict "no" with a list of n >= 1 steps (n next_step documents numbered
\* 1..n and one evaluation document), and with 1 new document, the evaluation
\* document holding the raw reply, otherwise; every new document refers to
\* the source, and no pending file that existed is overwritten.
C11_SpawnCount ==
  \A p \in Procs :
    (Ended(p) /\ faults = 0 /\ EvalReplied(p) # {})
      => LET m == inv[p]
             reply == m.calls[CHOOSE i \in EvalReplied(p) : TRUE].reply
             verdict == parse_evaluator_response(reply)
             steps == IF AcceptanceStatus(verdict).v = "no" THEN NextSteps(verdict) ELSE <<>>
             new == NewPending(p)
             ofType(ty) == {q \in new : fs[Pend(q)].meta.task_type = ty}
         IN /\ Cardinality(new) = Len(steps) + 1
            /\ Cardinality(ofType("evaluation")) = 1
            /\ \A q \in ofType("evaluation") :
                 parse_frontmatter(fs[Pend(q)]).content = Strip(reply)
            /\ {fs[Pend(q)].meta.step_number : q \in ofType("next_step")} = 1..Len(steps)
            /\ \A q \in new : fs[Pend(q)].meta.original_task = m.file
            /\ \A q \in DOMAIN m.fs0 :
                 q # Pend(m.file) => q \in DOMAIN fs /\ fs[q] = m.fs0[q]

\* C12: whatever the evaluator step yields (no I/O fault needed), an
\* invocation that persisted complete and sent the evaluator request ends by
\* returning with the document in the completed directory, status complete.
C12_EvaluatorNeverBlocksMove ==
  \A p \in Procs :
    (Ended(p) /\ faults = 0 /\ inv[p].final = <<"complete">>
       /\ \E i \in 1..Len(inv[p].calls) : inv[p].calls[i].kind = "eval")
      => /\ eng[p].pc = "returned"
         /\ inv[p].cur.dir = "completed"
         /\ StatusAt(fs, inv[p].cur) = "complete"

\* C13, as amended: an invocation sends at most one task request and at most
\* one evaluator request, the task request first, and sends nothing after a
\* request that brought no reply.
C13_OneCallNoRetry ==
  \A p \in Procs :
    LET calls == inv[p].calls
        ofKind(kd) == {i \in 1..Len(calls) : calls[i].kind = kd}
    IN /\ Cardinality(ofKind("task")) <= 1
       /\ Cardinality(ofKind("eval")) <= 1
       /\ ofKind("eval") # {} => ofKind("task") = {1} /\ ofKind("eval") = {Len(calls)}
       /\ \A i \in 1..Len(calls) : calls[i].k # "content" => i = Len(calls)

\* An invocation has returned whose task call brought a reply and whose
\* evaluator call failed: two requests were sent, the failed one once.
C13_Witness ==
  \E p \in Procs :
    /\ eng[p].pc = "returned"
    /\ Len(inv[p].calls) = 2
    /\ inv[p].calls[1].k = "content"
    /\ inv[p].calls[2].kind = "eval"
    /\ inv[p].calls[2].k = "timeout"

\* C13 as stated: an invocation makes at most one call to the inference
\* client.
C13_AtMostOneCall ==
  \A p \in Procs : Len(inv[p].calls) <= 1

\* C14: an invocation that finds status incomplete sends no request and
\* leaves every file as it was.
C14_IncompleteNotPickedUp ==
  \A p \in Procs :
    inv[p].entry = "incomplete" => inv[p].calls = <<>> /\ fs = inv[p].fs0

\* C15: when config.py lacks a setting, or is absent, main() returns at once:
\* the engine is never invoked, so no file is read, written or moved and no
\* request is sent.
C15_RefusesToStart ==
  settings # AllSettings
    => /\ invocations = 0
       /\ \A p \in Procs : eng[p].pc \in {"idle", "refused"}

\* C16: in a sequence of invocations with no I/O fault, every file that
\* existed when an invocation began still exists, with the content it had (the
\* invocation's own document apart, which exists where the invocation has put
\* it): no invocation deletes or overwrites another document.
C16_NoDocumentDestroyed ==
  \A p \in Procs :
    inv[p].file # <<>>
      => /\ \A q \in DOMAIN inv[p].fs0 :
              q # Pend(inv[p].file) => q \in DOMAIN fs /\ fs[q] = inv[p].fs0[q]
         /\ inv[p].cur \in DOMAIN fs

\* C17: an invocation that finds status complete and moves the document (no
\* I/O fault needed) appends an identifier to the name, sets task_id, and
\* changes nothing else: the body with its response section and every other
\* metadata field, created_at included, are as they were.
C17_MoveKeepsContent ==
  \A p \in Procs :
    (inv[p].entry = "complete" /\ inv[p].moved = "done" /\ faults = 0)
      => LET m == inv[p]
             old == parse_frontmatter(m.fs0[Pend(m.file)])
             new == parse_frontmatter(fs[m.cur])
         IN /\ m.cur.dir = "completed"
            /\ Len(m.cur.name) = Len(m.file) + 1
            /\ SubSeq(m.cur.name, 1, Len(m.file)) = m.file
            /\ m.cur.name[Len(m.cur.name)] = HashPart(new.meta.task_id)
            /\ new.content = old.content
            /\ [new.meta EXCEPT !.task_id = 0] = [old.meta EXCEPT !.task_id = 0]

\* The lines of a body, and whether line i lies in a criteria section: some
\* line j <= i is the criteria heading and no line after j up to i starts
\* with '## '.
BodyLines(body) == SplitLines(body, <<>>, <<>>)
InCriteriaSection(ls, i) ==
  \E j \in 1..i :
    /\ Strip(ls[j]) = <<AC>>
    /\ \A k \in (j + 1)..i : ~(ls[k] # <<>> /\ Head(ls[k]) \in Headings)
RECURSIVE LinesOutside(_, _)
LinesOutside(ls, i) ==
  IF i > Len(ls) THEN <<>>
  ELSE (IF InCriteriaSection(ls, i) THEN <<>> ELSE <<ls[i]>>) \o LinesOutside(ls, i + 1)

\* C18: the prompt is the body without its criteria sections: its lines are
\* the body's lines that lie outside every section from a criteria heading up
\* to the next line starting with '## ', unchanged and in order; stripping
\* the prompt again returns the prompt.
C18_PromptIsBodyWithoutCriteria ==
  (probe.fn = "strip" /\ probe.outs # <<>>)
    => /\ probe.outs[1] = JoinLines(LinesOutside(BodyLines(probe.body), 1))
       /\ \A i \in 1..Len(probe.outs) : probe.outs[i] = probe.outs[1]

C18_Witness ==
  /\ probe.fn = "strip"
  /\ probe.body = <<AC, NL, "t", NL, "## Next", NL>>
  /\ probe.outs = <<<<"## Next", NL>>, <<"## Next", NL>>>>

\* C18, in the engine: the prompt of every task call is the stripped body of
\* the document the invocation was called on.
C18_TaskPromptStripped ==
  \A p \in Procs : \A i \in 1..Len(inv[p].calls) :
    inv[p].calls[i].kind = "task"
      => inv[p].calls[i].prompt =
           JoinLines(LinesOutside(BodyLines(
             parse_frontmatter(inv[p].fs0[Pend(inv[p].file)]).content), 1))

\* C19: a criteria value that is a bool or an int is satisfied by no reply.
C19_FailsClosed ==
  (probe.fn = "criteria" /\ probe.done /\ probe.criteria.t \in {"bool", "int"})
    => ~probe.ok

\* The reply contains the text, letter case aside.
OccursIn(reply, text) ==
  \E i \in 0..(Len(reply) - Len(text)) :
    \A k \in 1..Len(text) : LowerChar(reply[i + k]) = LowerChar(text[k])

\* C20: a dict is satisfied iff its 'contains' text, when it has one, occurs
\* in the reply whatever the case and the reply is at least 'min_length'
\* long, when it has one; a str iff it occurs in the reply whatever the case;
\* no criteria always.
C20_SatisfiesIffClausesHold ==
  (probe.fn = "criteria" /\ probe.done)
    => LET cr == probe.criteria
           r == probe.reply
       IN /\ cr.t = "dict" =>
               (probe.ok <=> /\ cr.c => OccursIn(r, cr.s)
                             /\ cr.m => Len(r) >= cr.n)
          /\ cr.t = "str" => (probe.ok <=> OccursIn(r, cr.s))
          /\ cr.t = "absent" => probe.ok

C20_Witness ==
  /\ probe.fn = "criteria"
  /\ probe.done
  /\ probe.reply = <<"o", "K">>
  /\ probe.criteria = CritDict(TRUE, <<"O", "k">>, TRUE, 2)
  /\ probe.ok

\* The keys of a dict, and the value of one.
ValueOf(metadata, k) == metadata[CHOOSE i \in 1..Len(metadata) : metadata[i].key = k].val
KeysOf(metadata) == {metadata[i].key : i \in 1..Len(metadata)}

\* The coercion rules: a str that reads true/false (any case) is the bool, a
\* str of digits is the int; every other value is itself.
Coerced(v) ==
  IF v.t # "str" THEN v
  ELSE IF Lower(v.s) = <<"true">> THEN VBool(TRUE)
  ELSE IF Lower(v.s) = <<"false">> THEN VBool(FALSE)
  ELSE IF v.s # <<>> /\ \A i \in 1..Len(v.s) : v.s[i] \in Digits THEN VInt(IntOf(v.s))
  ELSE v
SameMetadata(decoded, metadata) ==
  /\ KeysOf(decoded) = KeysOf(metadata)
  /\ \A k \in KeysOf(metadata) : ValueOf(decoded, k) = Coerced(ValueOf(metadata, k))

\* C21: decoding what was encoded from (metadata, body), without a response,
\* gives the metadata, coercion aside, and the body.
C21_RoundTrip ==
  (probe.fn = "codec" /\ probe.done /\ probe.response = None)
    => /\ SameMetadata(probe.meta, probe.metadata)
       /\ probe.content = probe.body

\* C22: decoding what was encoded with a response gives the body, without
\* the Response section.
C22_ResponseExcluded ==
  (probe.fn = "codec" /\ probe.done /\ Truthy(probe.response))
    => probe.content = probe.body

\* C23: a pass that has ended has invoked the engine on every document it
\* listed, once each, and on no other (none spawned during the pass).
C23_OncePerListed ==
  \A p \in Procs :
    eng[p].pc \in {"passdone", "aborted"}
      => /\ eng[p].invoked = eng[p].listed
         /\ eng[p].todo = {}

\* The evaluator requests of p's invocation.
EvalCalls(p) == {i \in 1..Len(inv[p].calls) : inv[p].calls[i].kind = "eval"}

\* C24, as stated: when an evaluator request is sent the document is no
\* longer in the pending directory, and subtasks exist only once it has been
\* moved to completed.
C24_MovedBeforeEvaluator ==
  \A p \in Procs :
    /\ \A i \in EvalCalls(p) : inv[p].calls[i].status = "missing"
    /\ inv[p].spawned # {} => inv[p].moved = "done"

\* C24, as amended: the evaluator step comes before the move.  When the
\* evaluator request is sent the document is in the pending directory with
\* status complete; while the evaluator step and the creation of subtasks are
\* under way the document has not been moved; and a document this invocation
\* completed is in the completed directory only after the evaluator request.
C24_EvaluatorBeforeMove ==
  \A p \in Procs :
    /\ \A i \in EvalCalls(p) : inv[p].calls[i].status = "complete"
    /\ eng[p].pc \in {"eval", "mk_steps", "mk_eval"}
         => /\ inv[p].moved = "none"
            /\ inv[p].cur = Pend(inv[p].file)
            /\ inv[p].cur \in DOMAIN fs
    /\ (inv[p].final = <<"complete">> /\ inv[p].cur.dir = "completed")
         => EvalCalls(p) # {}

\* An invocation completed its document, sent the evaluator request while the
\* document was in pending, wrote a subtask, and then moved the document.
C24_Witness ==
  \E p \in Procs :
    /\ inv[p].final = <<"complete">>
    /\ EvalCalls(p) # {}
    /\ inv[p].spawned # {}
    /\ inv[p].cur.dir = "completed"
    /\ inv[p].cur \in DOMAIN fs

\* Pass q reads the document and goes on to process it (towards the task
\* call) while the running write of pass p's invocation on it has landed.
StartsAfterRunningLanded(p, q) ==
  /\ p # q
  /\ inv[p].file = eng[q].file
  /\ inv[p].running
  /\ eng[q].pc = "read"
  /\ eng'[q].pc = "wr_running"

\* C25: once the running write of one pass has landed, no other pass that
\* reads the document goes on to submit it: a second submission needs a read
\* before that write.
C25_SubmittedOnceAfterLock ==
  [][\A p \in Procs, q \in Procs : ~StartsAfterRunningLanded(p, q)]_vars

\* C26: a scheduler thread that has been asked to stop starts no pass; the
\* pass it was in when asked runs to its end.
C26_StoppedStartsNoPass ==
  [][\A t \in Procs :
       /\ (sched.th[t].stopped /\ sched.th[t].pc = "loop") => sched'.th[t].pc # "run"
       /\ (sched.th[t].pc = "run" /\ sched'.th[t].pc # "run")
            => eng[t].pc \in {"passdone", "aborted", "refused"}]_vars

\* The documents now in the completed or failed directory.
Relocated == {q \in DOMAIN fs : q.dir \in {"completed", "failed"}}

\* C27: two documents relocated during the run carry different task_id
\* values and different short-hash suffixes.
C27_IdentifiersUnique ==
  \A q1 \in Relocated, q2 \in Relocated :
    q1 # q2
      => /\ fs[q1].meta.task_id # fs[q2].meta.task_id
         /\ q1.name[Len(q1.name)] # q2.name[Len(q2.name)]

\* The number of date components in a file name.
DateParts(name) == Cardinality({i \in 1..Len(name) : name[i].k = "date"})

\* C28: however long the chain of subtasks, a file name carries one
\* timestamp: at most one date component, and no more than a step marker, a
\* date and a time after the base name.
C28_OneTimestamp ==
  \A q \in DOMAIN fs :
    /\ DateParts(q.name) <= 1
    /\ Len(q.name) <= 5

\* The run has left the case C29 is about: a call brought no reply text, the
\* evaluator's verdict was not the accepting one, or an invocation found a
\* document that was not pending.
NotAllAccepted ==
  \E p \in Procs :
    \/ inv[p].entry \notin {"none", "pending"}
    \/ eng[p].pc \in {"raised", "aborted", "refused"}
    \/ \E i \in 1..Len(inv[p].calls) :
         \/ inv[p].calls[i].k # "content"
         \/ inv[p].calls[i].reply = <<>>
         \/ inv[p].calls[i].kind = "eval" /\ inv[p].calls[i].reply # <<"J:yes">>

\* A pass has ended without an invocation, hence without an inference call.
QuietPass == \E p \in Procs : eng[p].pc = "passdone" /\ eng[p].listed = {}

ResponseHeadings(text) == Cardinality({i \in 1..Len(text) : text[i] = "## Response"})

\* C30: no task prompt contains a Response section, and no document holds
\* more than one.
C30_PromptWithoutResponse ==
  /\ \A p \in Procs : \A i \in 1..Len(inv[p].calls) :
       inv[p].calls[i].kind = "task" => ResponseHeadings(inv[p].calls[i].prompt) = 0
  /\ \A q \in DOMAIN fs : ResponseHeadings(fs[q].text) <= 1

\* A pass that has ended after listing documents leaves as many pending
\* documents as it listed, each with status pending.
PassRefillsPending ==
  \A p \in Procs :
    (eng[p].pc = "passdone" /\ eng[p].listed # {})
      => /\ Cardinality(PendingNames(fs)) = Cardinality(eng[p].listed)
         /\ \A n \in PendingNames(fs) : StatusAt(fs, Pend(n)) = "pending"

\* C29, why the run does not end where the exploration does: while every
\* call is answered and accepted, every pass refills the pending directory,
\* so the pass after it has as much to submit.
C29_PendingRefilled == <>NotAllAccepted \/ []PassRefillsPending

\* C31: a document whose status is complete, in the pending or the completed
\* directory, has no failure_reason.
C31_CompleteHasNoReason ==
  \A q \in DOMAIN fs :
    LET m == parse_frontmatter(fs[q]).meta
    IN (q.dir \in {"pending", "completed"} /\ m.status = "complete")
         => m.failure_reason = "absent"

\* The scheduler threads that are in run_orchestrator's loop, and those
\* waiting for their subprocess.
ActiveLoops == {t \in Procs : sched.th[t].pc \in {"loop", "run", "sleep"}}
RunningPasses == {t \in Procs : sched.th[t].pc = "run"}

\* C32: at no moment are two passes started by the scheduler running, and
\* while the flag is set no more than one loop is active.
C32_OneLoopOnePass ==
  /\ Cardinality(RunningPasses) <= 1
  /\ sched.running => Cardinality(ActiveLoops) <= 1

\* The files that are the document called name: the file of that name, or of
\* that name with a short hash appended, in any directory.
Copies(name) ==
  {q \in DOMAIN fs :
     \/ q.name = name
     \/ /\ Len(q.name) = Len(name) + 1
        /\ SubSeq(q.name, 1, Len(name)) = name
        /\ q.name[Len(q.name)].k = "hash"}

\* No pass is under way.
NoPassUnderWay == \A p \in Procs : eng[p].pc \in {"idle", "passdone", "aborted", "refused"}

\* C33: with two passes at once, when no pass is under way the document is
\* one file in one directory; and once it has left the pending directory it
\* is not created there again.
C33_OneFileOneSet ==
  /\ [](NoPassUnderWay => Cardinality(Copies(NameA)) = 1)
  /\ [][Pend(NameA) \notin DOMAIN fs => Pend(NameA) \notin DOMAIN fs']_vars

====
